---- MODULE Spec2Model ----
(***************************************************************************)
(* Model of jina/hubble/hubapi.py: the local store of executor packages    *)
(* under the hub root (install_local, uninstall_local, list_local,         *)
(* resolve_local, exist_local) and the per-project secret vault            *)
(* (dump_secret, load_secret).                                             *)
(*                                                                         *)
(* The hub root is a directory: a function from entry names (strings) to   *)
(* directories, a directory being a set of <<file name, data>> pairs.      *)
(* Path names are built and matched as the code builds and globs them, so  *)
(* that two (uuid, tag) pairs with the same marker name share one entry.   *)
(***************************************************************************)
EXTENDS Integers, Sequences, FiniteSets, TLC

VARIABLES
    root,         \* _hub_root: entry name -> directory (set of <<file, data>>)
    frame,        \* per caller: position in, arguments and outcome of its call
    lastExtract,  \* history: per uuid, the install that unpacked its directory
    work,         \* per working directory: its .jina directory and secret.key
    configs,      \* _hub_root/<local_id>.json files: local_id -> record
    rand,         \* number of random identities / keys generated so far
    vault         \* the last vault operation and what it returned

vars == <<root, frame, lastExtract, work, configs, rand, vault>>
storeVars == <<root, frame, lastExtract>>
vaultVars == <<work, configs, rand, vault>>

(***************************************************************************)
(* Inputs.                                                                 *)
(***************************************************************************)
\* Executor identifiers; "a-b" begins with "a" followed by "-".
Uuids == {"a", "a-b"}
\* Tags: empty, not beginning with "v", beginning with "v", containing "-".
Tags == {"", "1", "v1", "b-1"}
\* Zip packages offered to install_local.
Zips == {"B1", "B2"}
\* Callers of the store; MainCaller is the single caller of Spec.
Procs == {1, 2}
MainCaller == CHOOSE p \in Procs : \A q \in Procs : p <= q

\* The top-level files of each zip package.
ZipFiles(zip) ==
    IF zip = "B1" THEN {"executor.py", "requirements.txt", "manifest.yml"}
    ELSE {"executor.py"}

\* An optional tag argument: <<>> is Python's None, <<t>> the string t.
NoTag == <<>>
TagArgs == {NoTag} \cup {<<t>> : t \in Tags}
TagStr(tagArg) == IF tagArg = NoTag THEN "None" ELSE tagArg[1]
\* Python truthiness of an optional string: None and "" are false.
Truthy(tagArg) == tagArg # NoTag /\ tagArg[1] # ""

(***************************************************************************)
(* Path names and glob patterns.                                           *)
(***************************************************************************)
DistSuffix == ".dist-info"

HasPrefix(s, p) == Len(s) >= Len(p) /\ SubSeq(s, 1, Len(p)) = p
HasSuffix(s, p) == Len(s) >= Len(p) /\ SubSeq(s, Len(s) - Len(p) + 1, Len(s)) = p
Contains(s, p) == \E i \in 1..(Len(s) - Len(p) + 1) : SubSeq(s, i, i + Len(p) - 1) = p

\* get_dist_path: _hub_root / uuid and _hub_root / f'{uuid}-{tag}.dist-info'
PkgPath(uuid) == uuid
PkgDistPath(uuid, tag) == uuid \o "-" \o tag \o DistSuffix

\* _hub_root.glob(f'{uuid}-*.dist-info')
GlobUuidAnyTag(uuid, name) ==
    /\ Len(name) >= Len(uuid) + 1 + Len(DistSuffix)
    /\ HasPrefix(name, uuid \o "-")
    /\ HasSuffix(name, DistSuffix)

\* _hub_root.glob(r'*-v*.dist-info')
GlobListed(name) ==
    /\ HasSuffix(name, DistSuffix)
    /\ Contains(SubSeq(name, 1, Len(name) - Len(DistSuffix)), "-v")

Exists(path) == path \in DOMAIN root

\* shutil.rmtree of a set of existing entries
RmTree(r, paths) == [n \in (DOMAIN r) \ paths |-> r[n]]
\* creating or replacing one directory entry
PutDir(r, path, dir) == [n \in (DOMAIN r) \cup {path} |-> IF n = path THEN dir ELSE r[n]]

\* The directory unpack_package leaves for a zip package.
Unpacked(zip) == {<<f, zip>> : f \in ZipFiles(zip)}
HasFile(r, path, file) == path \in DOMAIN r /\ \E e \in r[path] : e[1] = file
\* shutil.copyfile(src_dir/file, dst_dir/file); both directories exist
CopyFile(r, src, dst, file) ==
    PutDir(r, dst, {e \in r[dst] : e[1] # file} \cup {e \in r[src] : e[1] = file})

(***************************************************************************)
(* resolve_local, exist_local, list_local: reads of the hub root.          *)
(***************************************************************************)
NotFound == "FileNotFoundError"

ResolveIn(r, uuid, tagArg) ==
    IF \/ PkgPath(uuid) \notin DOMAIN r
       \/ (Truthy(tagArg) /\ PkgDistPath(uuid, TagStr(tagArg)) \notin DOMAIN r)
    THEN NotFound
    ELSE PkgPath(uuid)

resolve_local(uuid, tagArg) == ResolveIn(root, uuid, tagArg)

exist_local(uuid, tagArg) == resolve_local(uuid, tagArg) # NotFound

list_local == {n \in DOMAIN root : GlobListed(n)}

(***************************************************************************)
(* Call frames.                                                            *)
(***************************************************************************)
NoEx == "none"

\* A frame holds the call's arguments, its position pc ("idle" between
\* calls, when the frame describes the call that returned last), the
\* exception ex caught by the except clause and the exception raised to the
\* caller.  The other fields are history kept for the properties: the number
\* of Unpacker and dependency installer calls made by the call, whether the
\* marker existed on entry, whether the call wrote to the hub root, the
\* nUnpack of the directly preceding call if that was a successful install
\* of the same (uuid, tag) (else -1), and the tag under which the package
\* directory found on entry had been unpacked.
IdleFrame ==
    [pc |-> "idle", op |-> "none", zip |-> "B1", uuid |-> "a", tag |-> "",
     force |-> FALSE, install_deps |-> FALSE, ex |-> NoEx, raised |-> NoEx,
     nUnpack |-> 0, nPip |-> 0, existed |-> FALSE, wrote |-> FALSE,
     prevUnpack |-> -1, prevTag |-> NoTag, overlap |-> FALSE]

NoExtract == [zip |-> "none", tag |-> NoTag]

Idle(p) == frame[p].pc = "idle"

Goto(p, f) == frame' = [frame EXCEPT ![p] = f] /\ UNCHANGED vaultVars
\* a step of caller p leaving the hub root as r
Write(p, r) == root' = r

\* The history of a uuid ends when its package directory is removed.
Forget(uuid) == lastExtract' = [lastExtract EXCEPT ![uuid] = NoExtract]

StoreInit ==
    /\ root = << >>
    /\ frame = [p \in Procs |-> IdleFrame]
    /\ lastExtract = [u \in Uuids |-> NoExtract]

(***************************************************************************)
(* install_local, one action per step of the call.  A step that can fail   *)
(* for reasons outside the store (the Unpacker, creating the marker, the   *)
(* dependency installer, a descriptor copy) has a failing twin; rmtree     *)
(* fails only as Python's does, on a path that is absent.                  *)
(***************************************************************************)
\* SkipInstall with the force flag ignored / with the early return dropped
SkipInstallIgnoresForce(existed, force) == existed
SkipInstallNever(existed, force) == FALSE
\* line 135: pkg_dist_path.exists() and not force
SkipInstall(existed, force) == existed /\ ~force

\* lines 134-136: the call, its arguments drawn by Next
InstallCall(p, zip, uuid, tag, force, install_deps) ==
    /\ Idle(p)
    /\ LET old == frame[p]
           existed == Exists(PkgDistPath(uuid, tag))
           same == old.op = "install" /\ old.raised = NoEx
                   /\ old.uuid = uuid /\ old.tag = tag
       IN Goto(p, [pc |-> IF SkipInstall(existed, force) THEN "idle" ELSE "clean",
                   op |-> "install", zip |-> zip, uuid |-> uuid, tag |-> tag,
                   force |-> force, install_deps |-> install_deps,
                   ex |-> NoEx, raised |-> NoEx, nUnpack |-> 0, nPip |-> 0,
                   existed |-> existed, wrote |-> FALSE,
                   prevUnpack |-> IF same THEN old.nUnpack ELSE -1,
                   prevTag |-> lastExtract[uuid].tag,
                   overlap |-> old.overlap \/ \E q \in Procs \ {p} : ~Idle(q)])
    /\ UNCHANGED <<root, lastExtract>>

\* CleanDist that removes no marker
CleanDistSkips(p) ==
    /\ frame[p].pc = "clean"
    /\ Goto(p, [frame[p] EXCEPT !.pc = "rmpkg"])
    /\ UNCHANGED <<root, lastExtract>>
\* lines 139-140: for dist in glob(f'{uuid}-*.dist-info'): rmtree(dist)
CleanDist(p) ==
    /\ frame[p].pc = "clean"
    /\ LET hits == {n \in DOMAIN root : GlobUuidAnyTag(frame[p].uuid, n)}
       IN /\ Write(p, RmTree(root, hits))
          /\ Goto(p, [frame[p] EXCEPT !.pc = "rmpkg",
                                      !.wrote = @ \/ hits # {}])
    /\ UNCHANGED lastExtract

\* lines 141-142: if pkg_path.exists(): rmtree(pkg_path)
CleanPkg(p) ==
    /\ frame[p].pc = "rmpkg"
    /\ LET pkg == PkgPath(frame[p].uuid)
       IN /\ Write(p, IF Exists(pkg) THEN RmTree(root, {pkg}) ELSE root)
          /\ Goto(p, [frame[p] EXCEPT !.pc = "unpack",
                                      !.wrote = @ \/ Exists(pkg)])
    /\ Forget(frame[p].uuid)

\* line 146: unpack_package(zip_package, pkg_path) succeeds
UnpackOk(p) ==
    /\ frame[p].pc = "unpack"
    /\ Write(p, PutDir(root, PkgPath(frame[p].uuid), Unpacked(frame[p].zip)))
    /\ Goto(p, [frame[p] EXCEPT !.pc = "mkdir", !.nUnpack = @ + 1, !.wrote = TRUE])
    /\ lastExtract' = [lastExtract EXCEPT ![frame[p].uuid] =
                          [zip |-> frame[p].zip, tag |-> <<frame[p].tag>>]]

\* line 146: unpack_package raises; all or nothing, so nothing is extracted
UnpackFail(p) ==
    /\ frame[p].pc = "unpack"
    /\ Goto(p, [frame[p] EXCEPT !.pc = "rb_pkg", !.nUnpack = @ + 1,
                                !.ex = "UnpackError"])
    /\ UNCHANGED <<root, lastExtract>>

\* line 149: pkg_dist_path.mkdir(parents=False, exist_ok=True)
MkdirOk(p) ==
    /\ frame[p].pc = "mkdir"
    /\ LET dist == PkgDistPath(frame[p].uuid, frame[p].tag)
       IN Write(p, IF Exists(dist) THEN root ELSE PutDir(root, dist, {}))
    /\ Goto(p, [frame[p] EXCEPT !.pc = "deps", !.wrote = TRUE])
    /\ UNCHANGED lastExtract

MkdirFail(p) ==
    /\ frame[p].pc = "mkdir"
    /\ Goto(p, [frame[p] EXCEPT !.pc = "rb_pkg", !.ex = "OSError"])
    /\ UNCHANGED <<root, lastExtract>>

\* WantsDeps without the install_deps test
WantsDepsAlways(p) ==
    HasFile(root, PkgPath(frame[p].uuid), "requirements.txt")
\* lines 152-154: if install_deps: if requirements_file.exists()
WantsDeps(p) ==
    /\ frame[p].install_deps
    /\ HasFile(root, PkgPath(frame[p].uuid), "requirements.txt")

\* lines 152-154, the test fails: on to the manifest
DepsSkip(p) ==
    /\ frame[p].pc = "deps"
    /\ ~WantsDeps(p)
    /\ Goto(p, [frame[p] EXCEPT !.pc = "manifest"])
    /\ UNCHANGED <<root, lastExtract>>

\* line 155: _install_requirements(requirements_file) returns
PipOk(p) ==
    /\ frame[p].pc = "deps"
    /\ WantsDeps(p)
    /\ Goto(p, [frame[p] EXCEPT !.pc = "copyreq", !.nPip = @ + 1])
    /\ UNCHANGED <<root, lastExtract>>

\* line 155: subprocess.check_call raises CalledProcessError
PipFail(p) ==
    /\ frame[p].pc = "deps"
    /\ WantsDeps(p)
    /\ Goto(p, [frame[p] EXCEPT !.pc = "rb_pkg", !.nPip = @ + 1,
                                !.ex = "CalledProcessError"])
    /\ UNCHANGED <<root, lastExtract>>

\* Whether shutil.copyfile of `file` from the package into the marker can work.
CanCopy(p, file) ==
    /\ HasFile(root, PkgPath(frame[p].uuid), file)
    /\ Exists(PkgDistPath(frame[p].uuid, frame[p].tag))

\* line 156: shutil.copyfile(requirements_file, pkg_dist_path / 'requirements.txt')
CopyReqOk(p) ==
    /\ frame[p].pc = "copyreq"
    /\ CanCopy(p, "requirements.txt")
    /\ Write(p, CopyFile(root, PkgPath(frame[p].uuid),
                         PkgDistPath(frame[p].uuid, frame[p].tag), "requirements.txt"))
    /\ Goto(p, [frame[p] EXCEPT !.pc = "manifest"])
    /\ UNCHANGED lastExtract

CopyReqFail(p) ==
    /\ frame[p].pc = "copyreq"
    /\ Goto(p, [frame[p] EXCEPT !.pc = "rb_pkg",
                   !.ex = IF CanCopy(p, "requirements.txt") THEN "OSError" ELSE NotFound])
    /\ UNCHANGED <<root, lastExtract>>

\* lines 158-159, no manifest.yml in the package: the call returns
ManifestSkip(p) ==
    /\ frame[p].pc = "manifest"
    /\ ~HasFile(root, PkgPath(frame[p].uuid), "manifest.yml")
    /\ Goto(p, [frame[p] EXCEPT !.pc = "idle"])
    /\ UNCHANGED <<root, lastExtract>>

\* line 160: shutil.copyfile(manifest_path, pkg_dist_path / 'manifest.yml')
ManifestOk(p) ==
    /\ frame[p].pc = "manifest"
    /\ CanCopy(p, "manifest.yml")
    /\ Write(p, CopyFile(root, PkgPath(frame[p].uuid),
                         PkgDistPath(frame[p].uuid, frame[p].tag), "manifest.yml"))
    /\ Goto(p, [frame[p] EXCEPT !.pc = "idle"])
    /\ UNCHANGED lastExtract

ManifestFail(p) ==
    /\ frame[p].pc = "manifest"
    /\ HasFile(root, PkgPath(frame[p].uuid), "manifest.yml")
    /\ Goto(p, [frame[p] EXCEPT !.pc = "rb_pkg",
                   !.ex = IF CanCopy(p, "manifest.yml") THEN "OSError" ELSE NotFound])
    /\ UNCHANGED <<root, lastExtract>>

\* line 164: shutil.rmtree(pkg_path); an absent path raises FileNotFoundError,
\* which leaves the handler in place of the caught exception
RollbackPkg(p) ==
    /\ frame[p].pc = "rb_pkg"
    /\ LET pkg == PkgPath(frame[p].uuid)
       IN IF Exists(pkg)
          THEN /\ Write(p, RmTree(root, {pkg}))
               /\ Goto(p, [frame[p] EXCEPT !.pc = "rb_dist", !.wrote = TRUE])
          ELSE /\ Goto(p, [frame[p] EXCEPT !.pc = "idle", !.raised = NotFound])
               /\ UNCHANGED root
    /\ Forget(frame[p].uuid)

\* RollbackDist that re-raises without removing the marker
RollbackDistKeepsMarker(p) ==
    /\ frame[p].pc = "rb_dist"
    /\ Goto(p, [frame[p] EXCEPT !.pc = "idle", !.raised = frame[p].ex])
    /\ UNCHANGED <<root, lastExtract>>
\* lines 165-166: shutil.rmtree(pkg_dist_path); raise ex
RollbackDist(p) ==
    /\ frame[p].pc = "rb_dist"
    /\ LET dist == PkgDistPath(frame[p].uuid, frame[p].tag)
       IN IF Exists(dist)
          THEN /\ Write(p, RmTree(root, {dist}))
               /\ Goto(p, [frame[p] EXCEPT !.pc = "idle", !.raised = frame[p].ex])
          ELSE /\ Goto(p, [frame[p] EXCEPT !.pc = "idle", !.raised = NotFound])
               /\ UNCHANGED root
    /\ UNCHANGED lastExtract

InstallStep(p) ==
    \/ CleanDist(p) \/ CleanPkg(p)
    \/ UnpackOk(p) \/ UnpackFail(p)
    \/ MkdirOk(p) \/ MkdirFail(p)
    \/ DepsSkip(p) \/ PipOk(p) \/ PipFail(p)
    \/ CopyReqOk(p) \/ CopyReqFail(p)
    \/ ManifestSkip(p) \/ ManifestOk(p) \/ ManifestFail(p)
    \/ RollbackPkg(p) \/ RollbackDist(p)

(***************************************************************************)
(* uninstall_local: the whole call in one action.                          *)
(***************************************************************************)
\* UninstallIn that removes the markers and leaves the package directory
UninstallInKeepsPkg(r, uuid) ==
    RmTree(r, {n \in DOMAIN r : GlobUuidAnyTag(uuid, n)})
\* lines 174-178: the hub root uninstall_local(uuid) leaves
UninstallIn(r, uuid) ==
    LET hits == {n \in DOMAIN r : GlobUuidAnyTag(uuid, n)}
        r1 == RmTree(r, hits)
    IN IF PkgPath(uuid) \in DOMAIN r1 THEN RmTree(r1, {PkgPath(uuid)}) ELSE r1

UninstallLocal(p, uuid) ==
    /\ Idle(p)
    /\ Write(p, UninstallIn(root, uuid))
    /\ Goto(p, [IdleFrame EXCEPT !.op = "uninstall", !.uuid = uuid,
                                 !.wrote = UninstallIn(root, uuid) # root,
                                 !.overlap = frame[p].overlap])
    /\ Forget(uuid)

StoreCall(p) ==
    \/ \E zip \in Zips, uuid \in Uuids, tag \in Tags, force \in BOOLEAN,
          install_deps \in BOOLEAN :
            InstallCall(p, zip, uuid, tag, force, install_deps)
    \/ \E uuid \in Uuids : UninstallLocal(p, uuid)

(***************************************************************************)
(* The secret vault: dump_secret and load_secret, each call one action.    *)
(*                                                                         *)
(* A working directory is [jina, key]: whether <work_path>/.jina exists,   *)
(* and the lines of .jina/secret.key (<< >> when the file is absent).  A   *)
(* line is the sequence of its tab-separated fields.  Identities and keys  *)
(* are numbered in the order they are generated.  An optional value is     *)
(* << >> for None and <<v>> for v.                                         *)
(***************************************************************************)
\* Number of working directories.
NumWorkDirs == 2
WorkDirs == 1..NumWorkDirs
\* Public ids and secrets handed to dump_secret.
PublicIds == {"u1", "u2"}
Secrets == {"", "s1"}

PyNone == << >>
Some(v) == <<v>>

\* cryptography.fernet: a token names the key it was made with and decrypts
\* under that key only; a key is usable when it is one generate_key returns.
ValidKey(key) == key \in Nat /\ key > 0
FernetEncrypt(key, data) == <<key, data>>
FernetDecrypts(key, token) == token[1] = key
FernetDecrypt(key, token) == token[2]

\* get_config_path with one file name for every identity
GetConfigPathShared(local_id) == 0
\* lines 31-36: get_config_path(local_id), the name of _hub_root/<local_id>.json
GetConfigPath(local_id) == local_id

\* lines 55-56 and 87-88: readline().strip().split('\t') unpacked into
\* (local_id, local_key), then Fernet(local_key)
Parses(line) == Len(line) = 2 /\ ValidKey(line[2])

\* line 97: f.write(f'{local_id}\t{local_key.decode()}')
KeyLine(local_id, key) == <<local_id, key>>

NoDump == [uuid8 |-> PyNone, secret |-> PyNone, over |-> FALSE]

VaultInit ==
    /\ work = [w \in WorkDirs |-> [jina |-> FALSE, key |-> << >>]]
    /\ configs = << >>
    /\ rand = 0
    /\ vault = [op |-> "none", work |-> 1, ret |-> <<PyNone, PyNone>>,
                raised |-> NoEx, dumped |-> [w \in WorkDirs |-> NoDump]]

\* line 64: if encrypted_secret
TokenTruthy(token) == token # << >>

\* lines 39-66: what load_secret(work_path) returns or raises
LoadResult(w) ==
    IF work[w].key = << >> THEN [ret |-> <<PyNone, PyNone>>, raised |-> NoEx]
    ELSE LET line == work[w].key[1]
         IN IF ~Parses(line) THEN [ret |-> <<PyNone, PyNone>>, raised |-> "ValueError"]
            ELSE LET file == GetConfigPath(line[1])
                 IN IF file \notin DOMAIN configs
                    THEN [ret |-> <<PyNone, PyNone>>, raised |-> NoEx]
                    ELSE LET cfg == configs[file]
                         IN IF ~TokenTruthy(cfg.encrypted_secret)
                            THEN [ret |-> <<cfg.uuid8, PyNone>>, raised |-> NoEx]
                            ELSE IF ~FernetDecrypts(line[2], cfg.encrypted_secret)
                            THEN [ret |-> <<PyNone, PyNone>>, raised |-> "InvalidToken"]
                            ELSE [ret |-> <<cfg.uuid8,
                                            Some(FernetDecrypt(line[2], cfg.encrypted_secret))>>,
                                  raised |-> NoEx]

\* lines 39-66: load_secret(work_path)
LoadSecret(w) ==
    /\ work' = [work EXCEPT ![w].jina = TRUE]
    /\ vault' = [vault EXCEPT !.op = "load", !.work = w,
                              !.ret = LoadResult(w).ret, !.raised = LoadResult(w).raised]
    /\ UNCHANGED <<configs, rand, storeVars>>

\* WriteConfig storing the secret as it is, readable without a key
WriteConfigPlain(local_id, key, uuid8, secret) ==
    configs' = PutDir(configs, GetConfigPath(local_id),
                      [uuid8 |-> Some(uuid8), encrypted_secret |-> <<0, secret>>])
\* lines 99-105: the record written under the identity's file name
WriteConfig(local_id, key, uuid8, secret) ==
    configs' = PutDir(configs, GetConfigPath(local_id),
                      [uuid8 |-> Some(uuid8),
                       encrypted_secret |-> FernetEncrypt(key, secret)])

Dumped(w, uuid8, secret) ==
    [vault EXCEPT !.op = "dump", !.work = w, !.ret = <<PyNone, PyNone>>,
                  !.raised = NoEx,
                  !.dumped[w] = [uuid8 |-> Some(uuid8), secret |-> Some(secret),
                                 over |-> @ # NoDump]]

\* line 93: random_identity(), and line 95: Fernet.generate_key(); the n-th
\* draw differs from every earlier one
RandomIdentity(n) == n + 1
GenerateKey(n) == n + 1

\* lines 92-105: no key file yet; a fresh identity and key are written first
DumpSecretFirst(w, uuid8, secret) ==
    /\ work[w].key = << >>
    /\ rand' = rand + 1
    /\ work' = [work EXCEPT ![w] = [jina |-> TRUE,
                                    key |-> <<KeyLine(RandomIdentity(rand),
                                                      GenerateKey(rand))>>]]
    /\ WriteConfig(RandomIdentity(rand), GenerateKey(rand), uuid8, secret)
    /\ vault' = Dumped(w, uuid8, secret)
    /\ UNCHANGED storeVars

\* lines 84-88 and 99-105: the key file exists and parses
DumpSecretAgain(w, uuid8, secret) ==
    /\ work[w].key # << >>
    /\ Parses(work[w].key[1])
    /\ work' = [work EXCEPT ![w].jina = TRUE]
    /\ WriteConfig(work[w].key[1][1], work[w].key[1][2], uuid8, secret)
    /\ vault' = Dumped(w, uuid8, secret)
    /\ UNCHANGED <<rand, storeVars>>

\* DumpSecretUnparsable taking the unparsable file for an absent one
DumpSecretUnparsableRegenerates(w, uuid8, secret) ==
    /\ work[w].key # << >>
    /\ ~Parses(work[w].key[1])
    /\ rand' = rand + 1
    /\ work' = [work EXCEPT ![w] = [jina |-> TRUE,
                                    key |-> <<KeyLine(RandomIdentity(rand),
                                                      GenerateKey(rand))>>]]
    /\ WriteConfig(RandomIdentity(rand), GenerateKey(rand), uuid8, secret)
    /\ vault' = Dumped(w, uuid8, secret)
    /\ UNCHANGED storeVars
\* DumpSecretUnparsable without the except clause: the parse error surfaces
DumpSecretUnparsableRaises(w, uuid8, secret) ==
    /\ work[w].key # << >>
    /\ ~Parses(work[w].key[1])
    /\ work' = [work EXCEPT ![w].jina = TRUE]
    /\ vault' = [Dumped(w, uuid8, secret) EXCEPT !.raised = "ValueError"]
    /\ UNCHANGED <<configs, rand, storeVars>>
\* lines 84-91: the key file exists and does not parse; return
DumpSecretUnparsable(w, uuid8, secret) ==
    /\ work[w].key # << >>
    /\ ~Parses(work[w].key[1])
    /\ work' = [work EXCEPT ![w].jina = TRUE]
    /\ vault' = Dumped(w, uuid8, secret)
    /\ UNCHANGED <<configs, rand, storeVars>>

\* The calls on working directories whose key file dump_secret wrote.
VaultCall ==
    \E w \in WorkDirs :
        \/ LoadSecret(w)
        \/ \E uuid8 \in PublicIds, secret \in Secrets :
               \/ DumpSecretFirst(w, uuid8, secret)
               \/ DumpSecretAgain(w, uuid8, secret)

\* First lines of a secret.key that dump_secret did not write: an empty
\* line (split gives one empty field, here 0), a line without a tab, a line
\* with a third field, and a line whose second field is no Fernet key.
BadLines == {<<0>>, <<7>>, <<7, 7, 7>>, <<7, 0>>}

\* At most one working directory holds such a file before the first call.
VaultInitEnv ==
    /\ \E bad \in SUBSET WorkDirs, l \in BadLines :
           /\ Cardinality(bad) <= 1
           /\ work = [w \in WorkDirs |->
                         IF w \in bad THEN [jina |-> TRUE, key |-> <<l>>]
                         ELSE [jina |-> FALSE, key |-> << >>]]
    /\ configs = << >>
    /\ rand = 0
    /\ vault = [op |-> "none", work |-> 1, ret |-> <<PyNone, PyNone>>,
                raised |-> NoEx, dumped |-> [w \in WorkDirs |-> NoDump]]

\* Every call on every working directory.
VaultCallEnv ==
    \E w \in WorkDirs :
        \/ LoadSecret(w)
        \/ \E uuid8 \in PublicIds, secret \in Secrets :
               \/ DumpSecretFirst(w, uuid8, secret)
               \/ DumpSecretAgain(w, uuid8, secret)
               \/ DumpSecretUnparsable(w, uuid8, secret)

(***************************************************************************)
(* Specifications.                                                         *)
(***************************************************************************)
Init == StoreInit /\ VaultInit

\* One caller using the store; calls do not overlap.
Next ==
    \/ StoreCall(MainCaller)
    \/ InstallStep(MainCaller)

Spec == Init /\ [][Next]_vars

\* The vault alone: dump_secret and load_secret on the working directories.
SpecVault == Init /\ [][VaultCall]_vars

\* The vault on working directories whose key file may be unparsable.
InitEnv == StoreInit /\ VaultInitEnv
SpecVaultEnv == InitEnv /\ [][VaultCallEnv]_vars

\* Callers installing versions of one package with no lock between them:
\* each makes one install_local call, and the steps of the calls interleave.
ConcUuid == "a"
ConcTags == {"1", "v1"}
ConcZip == "B1"
ConcCall(p) ==
    /\ frame[p].op = "none"
    /\ \E tag \in ConcTags, force \in BOOLEAN, install_deps \in BOOLEAN :
           InstallCall(p, ConcZip, ConcUuid, tag, force, install_deps)
NextConc == \E p \in Procs : ConcCall(p) \/ InstallStep(p)
SpecConc == Init /\ [][NextConc]_vars

(***************************************************************************)
(* Properties of the package store, stated of the single caller of Spec.   *)
(***************************************************************************)
F == frame[MainCaller]
Returned(op) == F.pc = "idle" /\ F.op = op
InstallOk == Returned("install") /\ F.raised = NoEx
InstallFailed == Returned("install") /\ F.ex # NoEx
\* The marker names of uuid: what its cleanup pattern matches.
MarkersOf(uuid) == {n \in DOMAIN root : GlobUuidAnyTag(uuid, n)}
\* The call's package directory exists and holds the call's zip, unpacked.
HoldsZip == Exists(PkgPath(F.uuid)) /\ root[PkgPath(F.uuid)] = Unpacked(F.zip)
Resolves ==
    /\ exist_local(F.uuid, <<F.tag>>)
    /\ resolve_local(F.uuid, <<F.tag>>) = PkgPath(F.uuid)

\* C1 (as claimed): after install(B,U,T) returns successfully, exist(U,T) is
\* true and resolve(U,T) returns the package directory of U holding B's
\* unpacked content, also when (U,T) was already installed from another
\* bundle and force is false.  Stated for the case the claim singles out: the
\* call directly follows a successful install of the same (U,T).
C1_AsClaimed == (InstallOk /\ F.prevUnpack >= 0) => (Resolves /\ HoldsZip)

\* C1 (amended): after install(B,U,T) returns successfully, either the call
\* unpacked B, and then exist(U,T) is true and resolve(U,T) returns the
\* package directory of U holding B's unpacked content; or it returned early
\* because the marker existed and force was false, and then it unpacked
\* nothing and left the hub root as it was.
C1_InstallThenResolve ==
    InstallOk =>
        IF F.nUnpack > 0
        THEN Resolves /\ HoldsZip
        ELSE F.existed /\ ~F.force /\ ~F.wrote

\* C1 witness: a forced reinstall over an installed (U,T) has returned.
C1_Witness == InstallOk /\ F.existed /\ F.force /\ F.nUnpack = 1 /\ HoldsZip

\* C2: when install fails at a step from extraction onward, on return
\* exist(U,T) is false and neither the package directory of U nor any marker
\* of U remains.
C2_FailedInstallLeavesNothing ==
    InstallFailed =>
        /\ ~exist_local(F.uuid, <<F.tag>>)
        /\ ~Exists(PkgPath(F.uuid))
        /\ MarkersOf(F.uuid) = {}
        /\ \A t \in Tags : ~Exists(PkgDistPath(F.uuid, t))

\* C2 witness: the dependency installer failed in a reinstall of an installed
\* (U,T), and the call has returned.
C2_Witness == InstallFailed /\ F.ex = "CalledProcessError" /\ F.existed

\* C3 (as claimed): the error the caller receives from a failed install is the
\* original failure of the step that failed.
C3_AsClaimed == InstallFailed => F.raised = F.ex

\* C4 (as claimed): between the cleanup of an install(B,U,T) call and its
\* return, exist(U,T) and exist(U) are false.
C4_AsClaimed ==
    (F.op = "install"
     /\ F.pc \in {"unpack", "mkdir", "deps", "copyreq", "manifest", "rb_pkg", "rb_dist"})
    => (~exist_local(F.uuid, <<F.tag>>) /\ ~exist_local(F.uuid, NoTag))

\* C5: install with force=false on an existing marker returns successfully
\* having called neither the Unpacker nor the dependency installer and having
\* changed nothing, so a force=false install right after a successful install
\* of the same (U,T) unpacks nothing and the two unpack at most once; with
\* force=true the call unpacks once, and on success only the new marker of U
\* remains, holding nothing but copies from B, and the package directory
\* holds B.
C5_SkipOrReplace ==
    /\ (Returned("install") /\ F.existed /\ ~F.force) =>
           (F.raised = NoEx /\ F.nUnpack = 0 /\ F.nPip = 0 /\ ~F.wrote)
    /\ (Returned("install") /\ ~F.force /\ F.prevUnpack >= 0) =>
           (F.nUnpack = 0 /\ F.prevUnpack + F.nUnpack <= 1)
    /\ (Returned("install") /\ F.existed /\ F.force) => F.nUnpack = 1
    /\ (InstallOk /\ F.existed /\ F.force) =>
           /\ HoldsZip
           /\ MarkersOf(F.uuid) = {PkgDistPath(F.uuid, F.tag)}
           /\ root[PkgDistPath(F.uuid, F.tag)] \subseteq Unpacked(F.zip)

\* C5 witness: a force=false install of another bundle has returned right
\* after the install that unpacked (U,T).
C5_Witness ==
    /\ Returned("install") /\ ~F.force /\ F.prevUnpack = 1 /\ F.nUnpack = 0
    /\ ~HoldsZip

\* C6 (as claimed): after a successful install of (U,T2) over an installed
\* (U,T1), T1 # T2, resolve(U,T1) is NotFound and resolve(U,T2) succeeds;
\* between calls each uuid has at most one tag's marker, and its package
\* directory holds the bundle of the last install that unpacked into it,
\* whose tag is that marker's tag.
C6_AsClaimed ==
    /\ (InstallOk /\ F.prevTag # NoTag /\ F.prevTag # <<F.tag>>) =>
           /\ resolve_local(F.uuid, F.prevTag) = NotFound
           /\ resolve_local(F.uuid, <<F.tag>>) = PkgPath(F.uuid)
    /\ F.pc = "idle" =>
           \A u \in Uuids :
               /\ Cardinality({t \in Tags : Exists(PkgDistPath(u, t))}) <= 1
               /\ Exists(PkgPath(u)) =>
                      /\ lastExtract[u] # NoExtract
                      /\ root[PkgPath(u)] = Unpacked(lastExtract[u].zip)
                      /\ \A t \in Tags : Exists(PkgDistPath(u, t)) =>
                                             lastExtract[u].tag = <<t>>

\* C7: uninstall(U) returns without error in every state of the store;
\* afterwards no marker and no package directory of U exists, exist(U,t) is
\* false and resolve(U,t) is NotFound for every tag and for no tag, and a
\* second uninstall(U) changes nothing.
C7_UninstallRemovesAll ==
    Returned("uninstall") =>
        /\ F.raised = NoEx
        /\ ~Exists(PkgPath(F.uuid))
        /\ MarkersOf(F.uuid) = {}
        /\ \A t \in Tags : ~Exists(PkgDistPath(F.uuid, t))
        /\ \A ta \in TagArgs :
               /\ ~exist_local(F.uuid, ta)
               /\ resolve_local(F.uuid, ta) = NotFound
        /\ UninstallIn(root, F.uuid) = root

\* C7 witness: an uninstall that removed something has returned.
C7_Witness == Returned("uninstall") /\ F.wrote

\* C8 (as claimed): in every state of the store between calls, for every
\* uuid and every tag argument (none, empty or not), resolve returns the
\* package directory exactly when it exists and, if a tag is supplied, the
\* marker of (uuid, tag) exists, and is NotFound otherwise; exist is true
\* exactly when resolve returns.
C8_AsClaimed ==
    F.pc = "idle" =>
    \A u \in Uuids, ta \in TagArgs :
        /\ (resolve_local(u, ta) = PkgPath(u)) <=>
               (/\ Exists(PkgPath(u))
                /\ ta # NoTag => Exists(PkgDistPath(u, TagStr(ta))))
        /\ (resolve_local(u, ta) = NotFound) <=> (resolve_local(u, ta) # PkgPath(u))
        /\ exist_local(u, ta) <=> (resolve_local(u, ta) = PkgPath(u))

\* C9 (as claimed): between calls, list() holds exactly the markers that
\* exist: the marker of every (uuid, tag), whatever the tag, is listed iff it
\* exists, and nothing else is listed.
C9_AsClaimed ==
    F.pc = "idle" =>
        /\ \A u \in Uuids, t \in Tags :
               Exists(PkgDistPath(u, t)) <=> PkgDistPath(u, t) \in list_local
        /\ \A n \in list_local : HasSuffix(n, DistSuffix) /\ Exists(n)

(***************************************************************************)
(* Properties of the secret vault.                                         *)
(***************************************************************************)
\* C10: load(W) before any dump on W returns (None, None) without error;
\* after one or more dumps on W it returns exactly the public id and the
\* secret of the most recent one, the empty secret included.
C10_LoadReturnsLastDump ==
    vault.op = "load" =>
        /\ vault.raised = NoEx
        /\ vault.ret = <<vault.dumped[vault.work].uuid8,
                         vault.dumped[vault.work].secret>>

\* C10 witness: a load has returned after a dump of the empty secret replaced
\* an earlier record, with a record of another working directory present.
C10_Witness ==
    /\ vault.op = "load"
    /\ vault.dumped[vault.work].over
    /\ vault.ret[2] = Some("")
    /\ Cardinality(DOMAIN configs) > 1

\* The identity and key a working directory's key file gives, if it parses.
HasKey(w) == work[w].key # << >> /\ Parses(work[w].key[1])
Unparsable(w) == work[w].key # << >> /\ ~Parses(work[w].key[1])
\* The record load_secret would read for the working directory, if any.
RecordOf(wk, cf, w) ==
    IF wk[w].key # << >> /\ Parses(wk[w].key[1])
       /\ GetConfigPath(wk[w].key[1][1]) \in DOMAIN cf
    THEN <<cf[GetConfigPath(wk[w].key[1][1])]>>
    ELSE << >>

\* C11: a key file, once it exists, is never rewritten or deleted by a later
\* dump or load, parsable or not; it comes into being only by a dump on its
\* working directory, together with the record of its identity; and a record,
\* once written, stays.
C11_KeyFileWrittenOnce ==
    [][\A w \in WorkDirs :
           /\ work[w].key # << >> => work'[w].key = work[w].key
           /\ (work[w].key = << >> /\ work'[w].key # << >>) =>
                  /\ vault'.op = "dump" /\ vault'.work = w
                  /\ Parses(work'[w].key[1])
                  /\ RecordOf(work', configs', w) # << >>
           /\ RecordOf(work, configs, w) # << >> =>
                  RecordOf(work', configs', w) # << >>]_vars

\* C11 witness: a second dump on a working directory has returned, and an
\* unparsable key file of another working directory has been dumped on.
C11_Witness ==
    /\ vault.op = "dump" /\ HasKey(vault.work) /\ vault.dumped[vault.work].over
    /\ \E w \in WorkDirs : Unparsable(w) /\ vault.dumped[w] # NoDump

\* C12: two working directories never hold the same identity or the same
\* key; a call on one working directory leaves the record every other one
\* reads as it was; and what load returns for a working directory is None or
\* what was last dumped on that same directory, never another's.
C12_WorkDirsIsolated ==
    /\ [](/\ \A w1, w2 \in WorkDirs :
                (w1 # w2 /\ HasKey(w1) /\ HasKey(w2)) =>
                    /\ work[w1].key[1][1] # work[w2].key[1][1]
                    /\ work[w1].key[1][2] # work[w2].key[1][2]
          /\ vault.op = "load" =>
                /\ vault.ret[1] \in {PyNone, vault.dumped[vault.work].uuid8}
                /\ vault.ret[2] \in {PyNone, vault.dumped[vault.work].secret})
    /\ [][\A w \in WorkDirs :
              vault'.work # w =>
                  RecordOf(work', configs', w) = RecordOf(work, configs, w)]_vars

\* C12 witness: load has returned a working directory's own public id and
\* secret while another directory's last dump was of another id and secret.
C12_Witness ==
    /\ vault.op = "load" /\ vault.ret[2] # PyNone
    /\ \E w \in WorkDirs \ {vault.work} :
           /\ HasKey(w)
           /\ vault.dumped[w].uuid8 # vault.ret[1]
           /\ vault.dumped[w].secret # vault.ret[2]

\* C13: every record in the hub root has the two fields uuid8 and
\* encrypted_secret and belongs to one working directory's identity; its
\* encrypted_secret is the Fernet token of the secret last dumped there, made
\* with that directory's key, never the secret itself; and every key file
\* written by dump holds one identity and one key and nothing else.
C13_OnlyCiphertextStored ==
    /\ \A f \in DOMAIN configs :
           /\ DOMAIN configs[f] = {"uuid8", "encrypted_secret"}
           /\ \E w \in WorkDirs :
                  /\ HasKey(w)
                  /\ GetConfigPath(work[w].key[1][1]) = f
                  /\ vault.dumped[w] # NoDump
                  /\ configs[f].uuid8 = vault.dumped[w].uuid8
                  /\ configs[f].encrypted_secret =
                         FernetEncrypt(work[w].key[1][2], vault.dumped[w].secret[1])
                  /\ ValidKey(configs[f].encrypted_secret[1])
    /\ \A w \in WorkDirs :
           HasKey(w) =>
               \E n \in 0..(rand - 1) :
                   work[w].key = <<KeyLine(RandomIdentity(n), GenerateKey(n))>>

\* C13 witness: a dump of a non-empty secret has returned and its record is
\* in the hub root.
C13_Witness ==
    /\ vault.op = "dump" /\ HasKey(vault.work)
    /\ vault.dumped[vault.work].secret = Some("s1")
    /\ RecordOf(work, configs, vault.work) # << >>

\* C14: load_secret on a working directory whose secret.key exists but cannot
\* be parsed returns (None, None) and raises nothing, as when the file is
\* absent; and it returns (None, None) when the key parses but no config file
\* exists for the identity.
C14_AsClaimed ==
    vault.op = "load" =>
        /\ Unparsable(vault.work) =>
               vault.raised = NoEx /\ vault.ret = <<PyNone, PyNone>>
        /\ (HasKey(vault.work) /\ RecordOf(work, configs, vault.work) = << >>) =>
               vault.raised = NoEx /\ vault.ret = <<PyNone, PyNone>>

\* C15: dump_secret on a working directory whose secret.key cannot be parsed
\* returns without raising, leaves every config file as it was and leaves the
\* key file unchanged.
C15_UnparsableDumpIsSilent ==
    [][\A w \in WorkDirs :
           (Unparsable(w) /\ vault'.op = "dump" /\ vault'.work = w) =>
               /\ vault'.raised = NoEx
               /\ configs' = configs
               /\ work'[w].key = work[w].key]_vars

\* C15 witness: a dump on a working directory with an unparsable key file has
\* returned while another working directory's record is in the hub root.
C15_Witness ==
    /\ vault.op = "dump" /\ Unparsable(vault.work)
    /\ vault.dumped[vault.work] # NoDump
    /\ DOMAIN configs # {}

\* C16: the manifest copy is best-effort: once unpack, marker creation and the
\* dependency step are behind it, install returns without an error and
\* (uuid, tag) is installed, whether or not the copy of manifest.yml worked;
\* the step after the manifest test never enters the rollback.
C16_AsClaimed ==
    [][F.pc = "manifest" =>
           /\ F'.pc = "idle"
           /\ F'.raised = NoEx
           /\ F'.ex = NoEx
           /\ (Exists(PkgPath(F.uuid)) /\ Exists(PkgDistPath(F.uuid, F.tag)))']_vars

\* pip has returned or raised in the caller's current install call
PipRan == F.op = "install" /\ F.nPip > 0

\* C17: within one install call pip is run at most once, only if install_deps
\* is set and requirements.txt is in the package directory, and only after
\* the unpack has completed and the marker directory exists; the marker holds
\* a copy of requirements.txt only if pip ran and succeeded; and a pip
\* failure makes the call raise with the package directory and the marker
\* removed.
C17_DepsOnceAfterUnpack ==
    /\ [](/\ F.nPip <= 1
          /\ PipRan =>
                 /\ F.install_deps
                 /\ F.nUnpack = 1
                 /\ \E e \in Unpacked(F.zip) : e[1] = "requirements.txt"
                 /\ F.pc \in {"copyreq", "manifest", "rb_pkg", "rb_dist", "idle"}
          /\ (F.op = "install" /\ F.nUnpack = 1
              /\ HasFile(root, PkgDistPath(F.uuid, F.tag), "requirements.txt")) =>
                 F.nPip = 1 /\ F.ex # "CalledProcessError"
          /\ (Returned("install") /\ F.ex = "CalledProcessError") =>
                 /\ F.raised = "CalledProcessError"
                 /\ ~Exists(PkgPath(F.uuid))
                 /\ ~Exists(PkgDistPath(F.uuid, F.tag)))
    /\ [][F'.nPip > F.nPip =>
              /\ F.pc = "deps" /\ F.install_deps /\ F.nUnpack = 1
              /\ HasFile(root, PkgPath(F.uuid), "requirements.txt")
              /\ Exists(PkgDistPath(F.uuid, F.tag))]_vars

\* C17 witness: an install with install_deps has returned after one pip run,
\* and the marker holds the copy of requirements.txt.
C17_Witness ==
    /\ InstallOk /\ F.install_deps /\ F.nPip = 1
    /\ HasFile(root, PkgDistPath(F.uuid, F.tag), "requirements.txt")

\* A pip failure has been rolled back and raised to the caller.
C17_WitnessFailed ==
    /\ Returned("install") /\ F.ex = "CalledProcessError"
    /\ F.raised = "CalledProcessError"

\* Both callers have returned from install_local.
AllReturned == \A p \in Procs : Idle(p) /\ frame[p].op = "install"
\* Two markers of uuid, for different tags, are present.
TwoMarkers(uuid) ==
    \E t1, t2 \in Tags :
        t1 # t2 /\ Exists(PkgDistPath(uuid, t1)) /\ Exists(PkgDistPath(uuid, t2))
\* A marker of uuid is present and the package directory of uuid is not.
OrphanMarker(uuid) == MarkersOf(uuid) # {} /\ ~Exists(PkgPath(uuid))
\* Some install call began while another caller's call was running.
Overlapped == \E p \in Procs : frame[p].overlap

\* C18: with no lock, install calls for one uuid whose steps interleave can
\* leave, after all have returned, two markers of the uuid for different tags
\* or a marker with the package directory absent; while no call has begun
\* during another, neither is found once the callers have returned.
C18_BrokenOnlyByInterleaving ==
    (AllReturned /\ ~Overlapped) => (~TwoMarkers(ConcUuid) /\ ~OrphanMarker(ConcUuid))

\* C18 witness: two overlapping installs of one uuid have both returned
\* without an error and the markers of both tags are present.
C18_Witness ==
    /\ AllReturned /\ Overlapped
    /\ \A p \in Procs : frame[p].raised = NoEx /\ frame[p].nUnpack = 1
    /\ TwoMarkers(ConcUuid)

\* Two overlapping installs have returned, one rolled back, and a marker is
\* left with the package directory gone.
C18_WitnessOrphan == AllReturned /\ Overlapped /\ OrphanMarker(ConcUuid)

\* What the store holds and answers for uuid in hub root r: its package
\* directory, its markers, and the results of resolve_local.
ViewOf(r, uuid) ==
    [pkg |-> IF PkgPath(uuid) \in DOMAIN r THEN <<r[PkgPath(uuid)]>> ELSE << >>,
     dist |-> [t \in Tags |-> IF PkgDistPath(uuid, t) \in DOMAIN r
                              THEN <<r[PkgDistPath(uuid, t)]>> ELSE << >>],
     resolve |-> [a \in TagArgs |-> ResolveIn(r, uuid, a)]]

\* C19: every step of install_local(zip, uuid, tag) and uninstall_local(uuid)
\* leaves the package directory, the markers and the resolve results of every
\* other uuid as they were, also when the other uuid begins with uuid and a
\* dash and when uuid-tag spells the same name as another pair.
C19_AsClaimed ==
    [][\A other \in Uuids \ {F'.uuid} : ViewOf(root', other) = ViewOf(root, other)]_vars

\* C20: once the single caller's calls have returned, every marker (uuid,
\* tag) that exists has the package directory of uuid beside it; so an
\* install that returns at the force=False short-circuit, having tested the
\* marker alone, returns with exist_local(uuid, tag) true.
C20_AsClaimed ==
    F.pc = "idle" =>
        /\ \A uuid \in Uuids, tag \in Tags :
               Exists(PkgDistPath(uuid, tag)) => Exists(PkgPath(uuid))
        /\ (InstallOk /\ F.nUnpack = 0) => exist_local(F.uuid, <<F.tag>>)

====
